---- MODULE Spec2Model ----
(***************************************************************************)
(* popmart_stock_watcher.py: a polling loop over a fixed list of product   *)
(* pages.  Each poll navigates to the page, classifies it (is_in_stock),   *)
(* pushes a notification on a false -> true edge of the verdict and stores *)
(* the verdict in last_seen_instock.                                       *)
(***************************************************************************)
EXTENDS Integers, Sequences, FiniteSets, TLC

(* ------------------------------ bounds -------------------------------- *)

\* how many of the configured product URLs the model tracks
NumProducts == 2
\* cycles of the polling loop explored in a run without observer
MaxLoops == 201
\* cycles explored in a run whose watched product keeps a verdict history
MaxAuditLoops == 3
\* starts of the process after the first, in a run with a watched product
MaxRestarts == 1
\* candidate phrases that match some button in one classified observation
MaxMatches == 2

(* --------------------------- configuration ---------------------------- *)

\* PRODUCT_URLS as configured, each URL named by its product number
ALL_PRODUCT_URLS ==
  << "p1265", "p1270", "p1269", "p925", "p909", "p820", "p757", "p753", "p733" >>

PRODUCT_URLS == SubSeq(ALL_PRODUCT_URLS, 1, NumProducts)

Products == { PRODUCT_URLS[k] : k \in 1..Len(PRODUCT_URLS) }

CANDIDATE_ADD_TEXTS ==
  << "Add to Cart", "Add To Cart", "Add to Bag", "Add To Bag",
     "Add to Basket", "Add To Basket", "Buy Now", "Purchase" >>

SOLD_OUT_TEXTS == << "Sold Out", "Out of Stock", "Out Of Stock", "Unavailable" >>

NOTIFY_ME_TEXTS == << "Notify Me", "Email Me When Available", "Back in Stock" >>

LOOP_RESTART == 200

\* values the environment may give PUSHOVER_TOKEN and PUSHOVER_USER
TokenValues == { "", "tok" }
UserValues == { "", "usr" }

(* ------------------------- page observations -------------------------- *)

\* phrases a page's HTML may hold, in the casing the page uses
PageVocabulary == { "SOLD OUT", "notify me", "add to cart", "Free Delivery" }

\* str.lower() on the phrases of the model
LowerTable ==
  [ s \in PageVocabulary \cup { CANDIDATE_ADD_TEXTS[k] : k \in 1..Len(CANDIDATE_ADD_TEXTS) }
          \cup { SOLD_OUT_TEXTS[k] : k \in 1..Len(SOLD_OUT_TEXTS) }
          \cup { NOTIFY_ME_TEXTS[k] : k \in 1..Len(NOTIFY_ME_TEXTS) } |->
      CASE s \in { "Add to Cart", "Add To Cart", "add to cart" } -> "add to cart"
        [] s \in { "Add to Bag", "Add To Bag" } -> "add to bag"
        [] s \in { "Add to Basket", "Add To Basket" } -> "add to basket"
        [] s = "Buy Now" -> "buy now"
        [] s = "Purchase" -> "purchase"
        [] s \in { "Sold Out", "SOLD OUT" } -> "sold out"
        [] s \in { "Out of Stock", "Out Of Stock" } -> "out of stock"
        [] s = "Unavailable" -> "unavailable"
        [] s \in { "Notify Me", "notify me" } -> "notify me"
        [] s = "Email Me When Available" -> "email me when available"
        [] s = "Back in Stock" -> "back in stock"
        [] s = "Free Delivery" -> "free delivery" ]

Lower(s) == LowerTable[s]

\* what the role query for one candidate phrase finds:
\*   absent   locator.count() = 0
\*   hidden   a button matches, is_visible() is false
\*   disabled a button matches and is visible, is_enabled() is false
\*   enabled  a button matches, is visible and enabled
\*   raises   count(), is_visible() or is_enabled() raises
ButtonOutcomes == { "absent", "hidden", "disabled", "enabled", "raises" }

ButtonQueries == 1..Len(CANDIDATE_ADD_TEXTS)

\* the sets of candidate phrases whose query matches some button
MatchedQueries == { S \in SUBSET ButtonQueries : Cardinality(S) <= MaxMatches }

ButtonObservations ==
  { [ k \in ButtonQueries |-> IF k \in DOMAIN g THEN g[k] ELSE "absent" ] :
      g \in UNION { [S -> ButtonOutcomes \ { "absent" }] : S \in MatchedQueries } }

\* One observation of a rendered page: the outcome of the button query for
\* each candidate phrase, the phrases in page.content(), and whether
\* page.content() raises.
Observations ==
  [ buttons : ButtonObservations, html : SUBSET PageVocabulary, content_raises : BOOLEAN ]

\* a page on which the query for phrase k has outcome b and every other
\* query finds nothing
PageWith(k, b, html, raises) ==
  [ buttons |-> [ j \in ButtonQueries |-> IF j = k THEN b ELSE "absent" ],
    html |-> html, content_raises |-> raises ]

\* the observations the polling loop is run on
SamplePages ==
  { PageWith(1, "enabled", {}, FALSE),
    PageWith(1, "enabled", { "SOLD OUT" }, FALSE),
    PageWith(Len(CANDIDATE_ADD_TEXTS), "enabled", { "Free Delivery" }, TRUE),
    PageWith(1, "disabled", { "add to cart" }, FALSE),
    PageWith(1, "absent", { "SOLD OUT" }, FALSE),
    PageWith(1, "absent", { "notify me" }, FALSE),
    PageWith(1, "raises", { "Free Delivery" }, TRUE) }

(* ----------------------------- classifier ----------------------------- *)

\* any(t.lower() in lower for t in texts), False when page.content() raises;
\* the HTML is a set of phrases, and a text is in it when it equals one of
\* them once both are lowered
page_has_any_text(obs, texts) ==
  IF obs.content_raises
    THEN FALSE
    ELSE \E k \in 1..Len(texts) : \E s \in obs.html : Lower(texts[k]) = Lower(s)

\* FindFrom without the is_enabled() test: a visible button counts
RECURSIVE FindFrom_NoEnabledCheck(_, _)
FindFrom_NoEnabledCheck(obs, k) ==
  IF k > Len(CANDIDATE_ADD_TEXTS)
    THEN FALSE
    ELSE IF obs.buttons[k] \in { "enabled", "disabled" }
      THEN TRUE
      ELSE FindFrom_NoEnabledCheck(obs, k + 1)

\* FindFrom with the try around the loop: a query that raises ends the search
RECURSIVE FindFrom_AbortOnRaise(_, _)
FindFrom_AbortOnRaise(obs, k) ==
  IF k > Len(CANDIDATE_ADD_TEXTS)
    THEN FALSE
    ELSE IF obs.buttons[k] = "enabled"
      THEN TRUE
      ELSE IF obs.buttons[k] = "raises"
        THEN FALSE
        ELSE FindFrom_AbortOnRaise(obs, k + 1)

\* the for loop of find_enabled_buy_button from phrase k on
RECURSIVE FindFrom(_, _)
FindFrom(obs, k) ==
  IF k > Len(CANDIDATE_ADD_TEXTS)
    THEN FALSE
    ELSE IF obs.buttons[k] = "enabled"
      THEN TRUE
      ELSE FindFrom(obs, k + 1)

find_enabled_buy_button(obs) == FindFrom(obs, 1)

\* some button query of the observation raises
QueryRaises(obs) == \E k \in ButtonQueries : obs.buttons[k] = "raises"

\* is_in_stock that takes a candidate phrase in the HTML for a buy button
is_in_stock_TextFallback(obs) ==
  IF find_enabled_buy_button(obs)
    THEN TRUE
    ELSE page_has_any_text(obs, CANDIDATE_ADD_TEXTS)

\* is_in_stock whose last line returns True
is_in_stock_DefaultOpen(obs) ==
  IF find_enabled_buy_button(obs)
    THEN TRUE
    ELSE IF page_has_any_text(obs, SOLD_OUT_TEXTS)
      THEN FALSE
      ELSE IF page_has_any_text(obs, NOTIFY_ME_TEXTS)
        THEN FALSE
        ELSE TRUE

is_in_stock(obs) ==
  IF find_enabled_buy_button(obs)
    THEN TRUE
    ELSE IF page_has_any_text(obs, SOLD_OUT_TEXTS)
      THEN FALSE
      ELSE IF page_has_any_text(obs, NOTIFY_ME_TEXTS)
        THEN FALSE
        ELSE FALSE

(* ---------------------------- notification ---------------------------- *)

\* what requests.post does: the status code it returns, or that it raises
PostResponses == { "200", "500", "raises" }

\* iphone_push that skips only when both credentials are unset
iphone_push_SkipsWhenBothUnset(token, user, url, resp) ==
  IF token = "" /\ user = ""
    THEN [ outcome |-> "skipped", posts |-> 0, url |-> url,
           log |-> << "pushover_not_configured" >> ]
    ELSE IF resp = "raises"
      THEN [ outcome |-> "exception", posts |-> 1, url |-> url,
             log |-> << "pushover_exception" >> ]
      ELSE IF resp # "200"
        THEN [ outcome |-> "http_error", posts |-> 1, url |-> url,
               log |-> << "pushover_error" >> ]
        ELSE [ outcome |-> "sent", posts |-> 1, url |-> url, log |-> << >> ]

\* iphone_push: the outcome, the number of requests.post calls, the url of
\* the message and the lines logged
iphone_push(token, user, url, resp) ==
  IF token = "" \/ user = ""
    THEN [ outcome |-> "skipped", posts |-> 0, url |-> url,
           log |-> << "pushover_not_configured" >> ]
    ELSE IF resp = "raises"
      THEN [ outcome |-> "exception", posts |-> 1, url |-> url,
             log |-> << "pushover_exception" >> ]
      ELSE IF resp # "200"
        THEN [ outcome |-> "http_error", posts |-> 1, url |-> url,
               log |-> << "pushover_error" >> ]
        ELSE [ outcome |-> "sent", posts |-> 1, url |-> url, log |-> << >> ]

\* iphone_push was not called
NoPush == [ outcome |-> "none", posts |-> 0, url |-> "none", log |-> << >> ]

(* ------------------------------- state -------------------------------- *)

VARIABLES
  PUSHOVER_TOKEN,      \* environment, read at import
  PUSHOVER_USER,
  pc,                  \* position of main(): loop, goto, check, recycle, sleep, exited
  loop_count,
  i,                   \* index in PRODUCT_URLS of the product of the for loop
  last_seen_instock,
  browser,             \* the engine, context and page main() holds,
  context,             \*   each named by the number of its launch
  page,
  open_browsers,       \* the engines, contexts and pages launched and not closed
  open_contexts,
  open_pages,
  lastPoll,            \* observer: the latest attempt on a product
  watch,               \* observer: the product whose history is kept, or Nobody
  verdicts,            \* observer: the verdicts of the watched product's completed polls
  dispatches,          \* observer: what the gate did in each of these polls
  attempted,           \* observer: the products attempted in the current cycle
  restarts,            \* observer: how often the process was started again
  prior_seen,          \* observer: the watched product's stored state when the
                       \*   process before this one ended
  exit,                \* observer: how the process ended, if it did
  twin_seen,           \* last_seen_instock of the same run with both credentials set
  probe                \* the observation handed to the classifier on its own

config == << PUSHOVER_TOKEN, PUSHOVER_USER >>
session == << browser, context, page, open_browsers, open_contexts, open_pages >>
audit == << watch, verdicts, dispatches >>
life == << restarts, prior_seen, exit >>
vars == << config, pc, loop_count, i, last_seen_instock, session, lastPoll, audit,
           attempted, life, twin_seen, probe >>

Nobody == "nobody"

NoProbe == [ phase |-> "none" ]

\* an attempt on a product: how it ended (nav_failed, check_failed, done),
\* the verdict, the stored state it was compared with, whether the gate
\* called iphone_push and what that did, what the check saw of the page,
\* the lines logged
Attempt(url, result, in_stock, was, notified, push, queries, log) ==
  [ url |-> url, result |-> result, in_stock |-> in_stock, was |-> was,
    notified |-> notified, push |-> push.outcome, posts |-> push.posts,
    push_url |-> push.url, query_raised |-> queries.raised,
    button |-> queries.button, buy_text |-> queries.buy_text,
    log |-> log \o push.log ]

\* what a check saw of the page: whether a button query raised, whether
\* find_enabled_buy_button found a button, whether the HTML holds a
\* candidate phrase as text
PageQueries(obs) ==
  [ raised |-> QueryRaises(obs), button |-> find_enabled_buy_button(obs),
    buy_text |-> \E s \in obs.html : \E k \in ButtonQueries :
                   Lower(s) = Lower(CANDIDATE_ADD_TEXTS[k]) ]

\* no check ran
NoQueries == [ raised |-> FALSE, button |-> FALSE, buy_text |-> FALSE ]

NoPoll == Attempt("none", "none", FALSE, FALSE, FALSE, NoPush, NoQueries, << >>)

\* the process runs
NoExit == [ reason |-> "running", code |-> 0, left_by_finally |-> {} ]

\* the optional test push at boot
StartupPush(token, user, resp) ==
  Attempt(PRODUCT_URLS[1], "startup", FALSE, FALSE, FALSE,
          iphone_push(token, user, PRODUCT_URLS[1], resp), NoQueries, << >>)

\* the state when main() enters its while loop
Init ==
  /\ PUSHOVER_TOKEN \in TokenValues
  /\ PUSHOVER_USER \in UserValues
  /\ pc = "loop"
  /\ loop_count = 0
  /\ i = 1
  /\ last_seen_instock = [ url \in Products |-> FALSE ]
  /\ browser = 1 /\ context = 1 /\ page = 1
  /\ open_browsers = { 1 } /\ open_contexts = { 1 } /\ open_pages = { 1 }
  /\ \/ lastPoll = NoPoll
     \/ \E resp \in PostResponses :
          lastPoll = StartupPush(PUSHOVER_TOKEN, PUSHOVER_USER, resp)
  /\ watch \in Products \cup { Nobody }
  /\ verdicts = << >>
  /\ dispatches = << >>
  /\ attempted = << >>
  /\ restarts = 0
  /\ prior_seen = FALSE
  /\ exit = NoExit
  /\ twin_seen = [ url \in Products |-> FALSE ]
  /\ probe = NoProbe

(* ------------------------------ the loop ------------------------------ *)

LoopBound == IF watch = Nobody THEN MaxLoops ELSE MaxAuditLoops

\* while True: loop_count += 1, then the for loop starts
BeginLoop ==
  /\ pc = "loop"
  /\ loop_count < LoopBound
  /\ loop_count' = loop_count + 1
  /\ i' = 1
  /\ pc' = "goto"
  /\ attempted' = << >>
  /\ UNCHANGED << config, life, last_seen_instock, session, lastPoll, audit, twin_seen, probe >>

\* where main() goes after the product at index k: the next product, or the
\* test of loop_count after the for loop
AfterProduct(k, count) ==
  IF k < Len(PRODUCT_URLS)
    THEN [ pc |-> "goto", i |-> k + 1 ]
    ELSE [ pc |-> IF count % LOOP_RESTART = 0 THEN "recycle" ELSE "sleep", i |-> k ]

\* GotoFails that drops the product's entry
GotoFails_Forget ==
  /\ pc = "goto"
  /\ LET url == PRODUCT_URLS[i]
         next == AfterProduct(i, loop_count)
     IN /\ lastPoll' = Attempt(url, "nav_failed", FALSE, last_seen_instock[url], FALSE,
                               NoPush, NoQueries, << "navigation_failed" >>)
        /\ last_seen_instock' =
             [ u \in DOMAIN last_seen_instock \ { url } |-> last_seen_instock[u] ]
        /\ pc' = next.pc
        /\ i' = next.i
        /\ attempted' = Append(attempted, url)
  /\ UNCHANGED << config, life, loop_count, session, audit, twin_seen, probe >>

\* GotoFails that stores the failure as a false verdict
GotoFails_StoreFalse ==
  /\ pc = "goto"
  /\ LET url == PRODUCT_URLS[i]
         next == AfterProduct(i, loop_count)
     IN /\ lastPoll' = Attempt(url, "nav_failed", FALSE, last_seen_instock[url], FALSE,
                               NoPush, NoQueries, << "navigation_failed" >>)
        /\ last_seen_instock' = [ last_seen_instock EXCEPT ![url] = FALSE ]
        /\ pc' = next.pc
        /\ i' = next.i
        /\ attempted' = Append(attempted, url)
  /\ UNCHANGED << config, life, loop_count, session, audit, twin_seen, probe >>

\* GotoFails with break for continue: the rest of the cycle is dropped
GotoFails_Break ==
  /\ pc = "goto"
  /\ LET url == PRODUCT_URLS[i]
         next == AfterProduct(Len(PRODUCT_URLS), loop_count)
     IN /\ lastPoll' = Attempt(url, "nav_failed", FALSE, last_seen_instock[url], FALSE,
                               NoPush, NoQueries, << "navigation_failed" >>)
        /\ pc' = next.pc
        /\ i' = i
        /\ attempted' = Append(attempted, url)
  /\ UNCHANGED << config, life, loop_count, last_seen_instock, session, audit, twin_seen, probe >>

\* page.goto(url) raises: logged, continue
GotoFails ==
  /\ pc = "goto"
  /\ LET url == PRODUCT_URLS[i]
         next == AfterProduct(i, loop_count)
     IN /\ lastPoll' = Attempt(url, "nav_failed", FALSE, last_seen_instock[url], FALSE,
                               NoPush, NoQueries, << "navigation_failed" >>)
        /\ pc' = next.pc
        /\ i' = next.i
        /\ attempted' = Append(attempted, url)
  /\ UNCHANGED << config, life, loop_count, last_seen_instock, session, audit, twin_seen, probe >>

\* page.goto(url) returns
GotoReturns ==
  /\ pc = "goto"
  /\ pc' = "check"
  /\ UNCHANGED << config, life, loop_count, i, last_seen_instock, session, lastPoll, audit,
                  attempted, twin_seen, probe >>

\* the gate without "and not was"
NotifierGate_EveryTrue(in_stock, was) == in_stock

\* if in_stock and not was
NotifierGate(in_stock, was) == in_stock /\ ~was

\* TrackProduct whose stored state never goes back to false
TrackProduct_Sticky(seen, url, in_stock, token, user, resp) ==
  LET was == seen[url]
      notified == NotifierGate(in_stock, was)
      push == IF notified THEN iphone_push(token, user, url, resp) ELSE NoPush
  IN [ seen |-> [ seen EXCEPT ![url] = was \/ in_stock ],
       was |-> was, notified |-> notified, push |-> push ]

\* TrackProduct that stores the verdict only when the push went out
TrackProduct_StoreOnDelivery(seen, url, in_stock, token, user, resp) ==
  LET was == seen[url]
      notified == NotifierGate(in_stock, was)
      push == IF notified THEN iphone_push(token, user, url, resp) ELSE NoPush
  IN [ seen |-> IF push.outcome \in { "http_error", "exception" }
                  THEN seen
                  ELSE [ seen EXCEPT ![url] = in_stock ],
       was |-> was, notified |-> notified, push |-> push ]

\* TrackProduct that stores the verdict under every key
TrackProduct_StoreAll(seen, url, in_stock, token, user, resp) ==
  LET was == seen[url]
      notified == NotifierGate(in_stock, was)
      push == IF notified THEN iphone_push(token, user, url, resp) ELSE NoPush
  IN [ seen |-> [ u \in DOMAIN seen |-> in_stock ],
       was |-> was, notified |-> notified, push |-> push ]

\* was = last_seen_instock.get(url), the push on the edge, the store
TrackProduct(seen, url, in_stock, token, user, resp) ==
  LET was == seen[url]
      notified == NotifierGate(in_stock, was)
      push == IF notified THEN iphone_push(token, user, url, resp) ELSE NoPush
  IN [ seen |-> [ seen EXCEPT ![url] = in_stock ],
       was |-> was, notified |-> notified, push |-> push ]

\* the answers requests.post can give in a check: it is called only when
\* the gate opens, in this run or in the twin
PostAnswers(in_stock, was, twin_was) ==
  IF NotifierGate(in_stock, was) \/ NotifierGate(in_stock, twin_was)
    THEN PostResponses
    ELSE { "200" }

\* the check of the product at index i runs to its end
CheckProduct ==
  /\ pc = "check"
  /\ \E obs \in SamplePages :
     \E resp \in PostAnswers(is_in_stock(obs), last_seen_instock[PRODUCT_URLS[i]],
                             twin_seen[PRODUCT_URLS[i]]) :
       LET url == PRODUCT_URLS[i]
           in_stock == is_in_stock(obs)
           r == TrackProduct(last_seen_instock, url, in_stock,
                             PUSHOVER_TOKEN, PUSHOVER_USER, resp)
           t == TrackProduct(twin_seen, url, in_stock, "tok", "usr", resp)
           next == AfterProduct(i, loop_count)
       IN /\ last_seen_instock' = r.seen
          /\ twin_seen' = t.seen
          /\ lastPoll' = Attempt(url, "done", in_stock, r.was, r.notified, r.push,
                                 PageQueries(obs), << "in_stock_verdict" >>)
          /\ IF url = watch
               THEN /\ verdicts' = Append(verdicts, in_stock)
                    /\ dispatches' = Append(dispatches, r.push.outcome)
               ELSE UNCHANGED << verdicts, dispatches >>
          /\ pc' = next.pc
          /\ i' = next.i
          /\ attempted' = Append(attempted, url)
  /\ UNCHANGED << config, life, loop_count, session, watch, probe >>

\* CheckFails that leaves the for loop: the rest of the cycle is dropped
CheckFails_Break ==
  /\ pc = "check"
  /\ LET url == PRODUCT_URLS[i]
         next == AfterProduct(Len(PRODUCT_URLS), loop_count)
     IN /\ lastPoll' = Attempt(url, "check_failed", FALSE, last_seen_instock[url], FALSE,
                               NoPush, NoQueries, << "check_failed" >>)
        /\ pc' = next.pc
        /\ i' = i
        /\ attempted' = Append(attempted, url)
  /\ UNCHANGED << config, life, loop_count, last_seen_instock, session, audit, twin_seen, probe >>

\* an exception leaves dismiss_overlays or is_in_stock: logged by the
\* handler of the check, nothing stored
CheckFails ==
  /\ pc = "check"
  /\ LET url == PRODUCT_URLS[i]
         next == AfterProduct(i, loop_count)
     IN /\ lastPoll' = Attempt(url, "check_failed", FALSE, last_seen_instock[url], FALSE,
                               NoPush, NoQueries, << "check_failed" >>)
        /\ pc' = next.pc
        /\ i' = next.i
        /\ attempted' = Append(attempted, url)
  /\ UNCHANGED << config, life, loop_count, last_seen_instock, session, audit, twin_seen, probe >>

\* Recycle that builds last_seen_instock anew with the session
Recycle_ResetsState ==
  /\ pc = "recycle"
  /\ \E closed \in { "page_and_context", "page_only", "neither" } :
       /\ open_pages' = (IF closed = "neither" THEN open_pages ELSE open_pages \ { page })
                          \cup { browser + 1 }
       /\ open_contexts' = (IF closed = "page_and_context"
                              THEN open_contexts \ { context } ELSE open_contexts)
                             \cup { browser + 1 }
  /\ open_browsers' = open_browsers \cup { browser + 1 }
  /\ browser' = browser + 1
  /\ context' = browser + 1
  /\ page' = browser + 1
  /\ pc' = "sleep"
  /\ last_seen_instock' = [ url \in Products |-> FALSE ]
  /\ twin_seen' = [ url \in Products |-> FALSE ]
  /\ UNCHANGED << config, life, loop_count, i, lastPoll, audit, attempted, probe >>

\* the recycle of every LOOP_RESTART-th cycle: page.close() and
\* context.close() under one try, then a new engine, context and page
Recycle ==
  /\ pc = "recycle"
  /\ \E closed \in { "page_and_context", "page_only", "neither" } :
       /\ open_pages' = (IF closed = "neither" THEN open_pages ELSE open_pages \ { page })
                          \cup { browser + 1 }
       /\ open_contexts' = (IF closed = "page_and_context"
                              THEN open_contexts \ { context } ELSE open_contexts)
                             \cup { browser + 1 }
  /\ open_browsers' = open_browsers \cup { browser + 1 }
  /\ browser' = browser + 1
  /\ context' = browser + 1
  /\ page' = browser + 1
  /\ pc' = "sleep"
  /\ UNCHANGED << config, life, loop_count, i, last_seen_instock, lastPoll, audit, attempted,
                  twin_seen, probe >>

\* asyncio.sleep(CHECK_EVERY_SECONDS) returns
Sleep ==
  /\ pc = "sleep"
  /\ pc' = "loop"
  /\ UNCHANGED << config, life, loop_count, i, last_seen_instock, session, lastPoll, audit,
                  attempted, twin_seen, probe >>

(* ------------------------ the end of the process ---------------------- *)

RunningPcs == { "loop", "goto", "check", "recycle", "sleep" }

\* the try of the finally block: page.close(), context.close() and
\* browser.close() all return, or one of them raises and ends the block
FinallyOutcomes == { "all", "raised" }

\* the engines still open after the finally block, given the open ones
LeftByFinally(outcome, engines) ==
  IF outcome = "all" THEN engines \ { browser } ELSE engines

\* main() is left: the finally block runs, then async_playwright() is left,
\* which stops the driver and with it every engine it launched; the
\* variables of the loop are gone with the process, the observer keeps the
\* watched product's stored state
ProcessEnds(reason, code, outcome, engines) ==
  /\ pc' = "exited"
  /\ exit' = [ reason |-> reason, code |-> code,
               left_by_finally |-> LeftByFinally(outcome, engines) ]
  /\ prior_seen' = IF watch = Nobody THEN FALSE ELSE last_seen_instock[watch]
  /\ open_browsers' = {} /\ open_contexts' = {} /\ open_pages' = {}
  /\ lastPoll' = Attempt("none", "process_ended", FALSE, FALSE, FALSE, NoPush, NoQueries,
                         << >>)
  /\ loop_count' = 0
  /\ i' = 1
  /\ last_seen_instock' = [ url \in Products |-> FALSE ]
  /\ twin_seen' = [ url \in Products |-> FALSE ]
  /\ verdicts' = << >>
  /\ dispatches' = << >>
  /\ attempted' = << >>
  /\ UNCHANGED << config, browser, context, page, watch, restarts, probe >>

\* KeyboardInterrupt at any point of the loop: finally, then sys.exit(0)
Interrupt ==
  /\ pc \in RunningPcs
  /\ \E outcome \in FinallyOutcomes : ProcessEnds("interrupt", 0, outcome, open_browsers)

\* the launch of the recycle raises, after the old page and context were
\* closed: nothing catches it, main() is left through the finally block
\* with `browser` still the old engine
RecycleLaunchFails ==
  /\ pc = "recycle"
  /\ \E outcome \in FinallyOutcomes :
       ProcessEnds("recycle_failed", 1, outcome, open_browsers)

RestartBound == IF watch = Nobody THEN 0 ELSE MaxRestarts

\* Restart that reads the watched product's state of the process before
Restart_Persisted ==
  /\ pc = "exited"
  /\ restarts < RestartBound
  /\ restarts' = restarts + 1
  /\ pc' = "loop"
  /\ loop_count' = 0
  /\ i' = 1
  /\ last_seen_instock' = [ url \in Products |-> url = watch /\ prior_seen ]
  /\ browser' = 1 /\ context' = 1 /\ page' = 1
  /\ open_browsers' = { 1 } /\ open_contexts' = { 1 } /\ open_pages' = { 1 }
  /\ \/ lastPoll' = NoPoll
     \/ \E resp \in PostResponses :
          lastPoll' = StartupPush(PUSHOVER_TOKEN, PUSHOVER_USER, resp)
  /\ verdicts' = << >>
  /\ dispatches' = << >>
  /\ attempted' = << >>
  /\ exit' = NoExit
  /\ twin_seen' = [ url \in Products |-> url = watch /\ prior_seen ]
  /\ UNCHANGED << config, watch, prior_seen, probe >>

\* the process is started again: main() runs up to its while loop
Restart ==
  /\ pc = "exited"
  /\ restarts < RestartBound
  /\ restarts' = restarts + 1
  /\ pc' = "loop"
  /\ loop_count' = 0
  /\ i' = 1
  /\ last_seen_instock' = [ url \in Products |-> FALSE ]
  /\ browser' = 1 /\ context' = 1 /\ page' = 1
  /\ open_browsers' = { 1 } /\ open_contexts' = { 1 } /\ open_pages' = { 1 }
  /\ \/ lastPoll' = NoPoll
     \/ \E resp \in PostResponses :
          lastPoll' = StartupPush(PUSHOVER_TOKEN, PUSHOVER_USER, resp)
  /\ verdicts' = << >>
  /\ dispatches' = << >>
  /\ attempted' = << >>
  /\ exit' = NoExit
  /\ twin_seen' = [ url \in Products |-> FALSE ]
  /\ UNCHANGED << config, watch, prior_seen, probe >>

Next ==
  \/ BeginLoop
  \/ GotoFails
  \/ GotoReturns
  \/ CheckProduct
  \/ CheckFails
  \/ Recycle
  \/ Sleep
  \/ Interrupt
  \/ RecycleLaunchFails
  \/ Restart

Spec == Init /\ [][Next]_vars

(* ----------------------- the classifier on its own --------------------- *)

InitClassify ==
  /\ PUSHOVER_TOKEN = "" /\ PUSHOVER_USER = ""
  /\ pc = "classify"
  /\ loop_count = 0
  /\ i = 1
  /\ last_seen_instock = [ url \in Products |-> FALSE ]
  /\ browser = 1 /\ context = 1 /\ page = 1
  /\ open_browsers = { 1 } /\ open_contexts = { 1 } /\ open_pages = { 1 }
  /\ lastPoll = NoPoll
  /\ watch = Nobody
  /\ verdicts = << >>
  /\ dispatches = << >>
  /\ attempted = << >>
  /\ restarts = 0
  /\ prior_seen = FALSE
  /\ exit = NoExit
  /\ twin_seen = [ url \in Products |-> FALSE ]
  /\ \E obs \in Observations : probe = [ phase |-> "given", obs |-> obs, verdict |-> FALSE ]

\* in_stock = await is_in_stock(page)
Classify ==
  /\ pc = "classify"
  /\ probe.phase = "given"
  /\ probe' = [ phase |-> "classified", obs |-> probe.obs, verdict |-> is_in_stock(probe.obs) ]
  /\ UNCHANGED << config, life, pc, loop_count, i, last_seen_instock, session, lastPoll, audit,
                  attempted, twin_seen >>

NextClassify == Classify

SpecClassify == InitClassify /\ [][NextClassify]_vars

(* ------------------------------ properties ---------------------------- *)

\* the step from pc = "check" or pc = "goto" that ends an attempt on `url`
CurrentUrl == PRODUCT_URLS[i]
CompletesPoll == pc = "check" /\ lastPoll'.result = "done"
NavigationFailed == pc = "goto" /\ pc' # "check" /\ lastPoll'.result = "nav_failed"
CheckFailed == pc = "check" /\ lastPoll'.result = "check_failed"

Watched == watch # Nobody
Polls == Len(verdicts)
FailedDispatch == { "http_error", "exception" }

\* the edges false -> true of a sequence of verdicts that follows `before`
RECURSIVE Edges(_, _)
Edges(before, vs) ==
  IF vs = << >>
    THEN 0
    ELSE (IF ~before /\ Head(vs) THEN 1 ELSE 0) + Edges(Head(vs), Tail(vs))

\* the gate's iphone_push calls among the watched product's completed polls
RECURSIVE Notifications(_)
Notifications(ds) ==
  IF ds = << >> THEN 0 ELSE (IF Head(ds) # "none" THEN 1 ELSE 0) + Notifications(Tail(ds))

\* the HTML of the observation holds a phrase of `texts`, whatever its case
ContainsPhrase(obs, texts) ==
  \E s \in obs.html : \E k \in 1..Len(texts) : Lower(s) = Lower(texts[k])

SoldOutOrWaitlist(obs) ==
  ContainsPhrase(obs, SOLD_OUT_TEXTS) \/ ContainsPhrase(obs, NOTIFY_ME_TEXTS)

EnabledButton(obs) == \E k \in ButtonQueries : obs.buttons[k] = "enabled"

Classified == probe.phase = "classified"

\* C1: a completed poll of a product calls iphone_push for it if and only
\* if its verdict is true and the state stored for the product before the
\* poll is false; an attempt that fails calls nothing; and a verdict equal
\* to the product's previous verdict never pushes.
C1_NotifierGate ==
  [][ /\ CompletesPoll =>
           /\ lastPoll'.url = CurrentUrl
           /\ lastPoll'.notified <=> (lastPoll'.in_stock /\ ~last_seen_instock[CurrentUrl])
           /\ lastPoll'.notified <=> (lastPoll'.push # "none")
           /\ (CurrentUrl = watch /\ Polls >= 1 /\ verdicts[Polls] = lastPoll'.in_stock)
                => ~lastPoll'.notified
      /\ (NavigationFailed \/ CheckFailed) =>
           ~lastPoll'.notified /\ lastPoll'.push = "none" ]_vars

\* C1 witness: the watched product was polled true twice in a row; the
\* first poll pushed, the second did not.
C1_Witness ==
  /\ Watched
  /\ verdicts = << TRUE, TRUE >>
  /\ dispatches[1] # "none" /\ dispatches[2] = "none"
  /\ lastPoll.url = watch /\ lastPoll.result = "done" /\ ~lastPoll.notified

\* C2: the number of notifications for a product equals the number of
\* false -> true edges of its completed verdicts, the state before the
\* first poll counting as false; true, false, true gives two.
C2_OnePushPerEdge ==
  Watched =>
    /\ Len(dispatches) = Len(verdicts)
    /\ Notifications(dispatches) = Edges(FALSE, verdicts)
    /\ verdicts = << TRUE, FALSE, TRUE >> => Notifications(dispatches) = 2

\* C2 witness: true, false, true with the two notifications.
C2_Witness ==
  /\ Watched
  /\ verdicts = << TRUE, FALSE, TRUE >>
  /\ dispatches[1] # "none" /\ dispatches[2] = "none" /\ dispatches[3] # "none"

\* C3 as claimed: an observation that holds sold-out or waitlist phrasing is
\* classified false, whatever its buttons.
C3_SoldOutAlwaysFalse ==
  (Classified /\ SoldOutOrWaitlist(probe.obs)) => ~probe.verdict

\* C3 amended: an observation that holds sold-out or waitlist phrasing is
\* classified false when no candidate button is visible and enabled, and
\* true when one is.
C3_SoldOutFalseUnlessButton ==
  (Classified /\ SoldOutOrWaitlist(probe.obs)) =>
    (probe.verdict <=> EnabledButton(probe.obs))

\* C3 witness: sold-out phrasing beside a disabled buy button, classified false.
C3_Witness ==
  /\ Classified
  /\ ContainsPhrase(probe.obs, SOLD_OUT_TEXTS)
  /\ \E k \in ButtonQueries : probe.obs.buttons[k] = "disabled"
  /\ ~EnabledButton(probe.obs)
  /\ ~probe.verdict

MatchesNothing(obs) ==
  /\ \A k \in ButtonQueries : obs.buttons[k] = "absent"
  /\ ~ContainsPhrase(obs, CANDIDATE_ADD_TEXTS)
  /\ ~SoldOutOrWaitlist(obs)

\* C5: an observation that matches none of the three groups is classified false.
C5_DefaultClosed ==
  (Classified /\ MatchesNothing(probe.obs)) => ~probe.verdict

\* C5 witness: a page with unrelated text only, classified false.
C5_Witness ==
  /\ Classified
  /\ MatchesNothing(probe.obs)
  /\ probe.obs.html = { "Free Delivery" }
  /\ ~probe.obs.content_raises
  /\ ~probe.verdict

\* C6: last_seen_instock has exactly the tracked URLs as keys, each with a
\* boolean, in every state.
C6_KeySetFixed ==
  /\ DOMAIN last_seen_instock = Products
  /\ \A url \in Products : last_seen_instock[url] \in BOOLEAN

\* C6 witness: after a recycle and a failed navigation in the cycle after
\* it, with a product stored as in stock.
C6_Witness ==
  /\ browser = 2
  /\ loop_count > LOOP_RESTART
  /\ lastPoll.result = "nav_failed"
  /\ \E url \in Products : last_seen_instock[url]
  /\ DOMAIN last_seen_instock = Products

\* C7: a failed navigation is logged, pushes nothing, leaves the stored
\* states as they are and leaves main() in its loop; and as long as no poll
\* of a product completes, its stored state stays what it was and nothing
\* is pushed for it.
C7_NavigationFailureKeepsState ==
  [][ /\ NavigationFailed =>
           /\ lastPoll'.url = CurrentUrl
           /\ last_seen_instock' = last_seen_instock
           /\ ~lastPoll'.notified /\ lastPoll'.posts = 0
           /\ lastPoll'.log = << "navigation_failed" >>
           /\ pc' \in { "goto", "recycle", "sleep" }
      /\ (Watched /\ verdicts' = verdicts) =>
           /\ last_seen_instock'[watch] = last_seen_instock[watch]
           /\ dispatches' = dispatches ]_vars

\* C7 witness: the watched product was seen in stock in the first cycle and
\* its navigation failed in a later one; its state is still true.
C7_Witness ==
  /\ Watched
  /\ verdicts = << TRUE >>
  /\ loop_count >= 2
  /\ lastPoll.url = watch /\ lastPoll.result = "nav_failed"
  /\ last_seen_instock[watch]

\* C8 as claimed: a failed attempt on a product is handled as a false
\* verdict, so the product's stored state is false after it.
C8_FailureStoredAsFalse ==
  lastPoll.result \in { "nav_failed", "check_failed" } => ~last_seen_instock[lastPoll.url]

\* C8 amended: a failed navigation or check is logged and skips the product
\* for the cycle: no verdict is stored, the stored states stay as they are,
\* and main() goes on to the next product or to the end of the cycle; a
\* query that raises inside find_enabled_buy_button is not a failure of the
\* check: the poll completes, without an error line.
C8_FailureSkipsProduct ==
  [][ /\ (NavigationFailed \/ CheckFailed) =>
           /\ lastPoll'.url = CurrentUrl
           /\ last_seen_instock' = last_seen_instock
           /\ verdicts' = verdicts
           /\ lastPoll'.log \in { << "navigation_failed" >>, << "check_failed" >> }
           /\ IF i < Len(PRODUCT_URLS)
                THEN pc' = "goto" /\ i' = i + 1
                ELSE pc' \in { "recycle", "sleep" }
      /\ (CompletesPoll /\ lastPoll'.query_raised) =>
           /\ last_seen_instock'[CurrentUrl] = lastPoll'.in_stock
           /\ lastPoll'.log[1] = "in_stock_verdict"
           /\ \A k \in 1..Len(lastPoll'.log) :
                lastPoll'.log[k] \notin { "navigation_failed", "check_failed" } ]_vars

\* C8 witness: the first product's navigation failed while it is stored as
\* in stock, and the second product is up next.
C8_Witness ==
  /\ lastPoll.url = PRODUCT_URLS[1]
  /\ lastPoll.result = "nav_failed"
  /\ last_seen_instock[PRODUCT_URLS[1]]
  /\ pc = "goto" /\ i = 2

\* C9: a dispatch that fails is logged and made once, the product is stored
\* as in stock all the same, and a true verdict that follows a failed
\* dispatch pushes nothing.
C9_FailedPushStillStored ==
  /\ lastPoll.push \in FailedDispatch =>
       /\ lastPoll.posts = 1
       /\ lastPoll.log \in { << "in_stock_verdict", "pushover_error" >>,
                             << "in_stock_verdict", "pushover_exception" >>,
                             << "pushover_error" >>, << "pushover_exception" >> }
       /\ lastPoll.result = "done" => last_seen_instock[lastPoll.url]
  /\ Watched =>
       \A k \in 1..Len(dispatches) :
         dispatches[k] \in FailedDispatch =>
           /\ verdicts[k]
           /\ (k < Len(dispatches) /\ verdicts[k + 1]) => dispatches[k + 1] = "none"
           /\ k = Len(dispatches) => last_seen_instock[watch]

\* C9 witness: the push of the first true verdict raised, the next true
\* verdict pushed nothing.
C9_Witness ==
  /\ Watched
  /\ verdicts = << TRUE, TRUE >>
  /\ dispatches = << "exception", "none" >>
  /\ last_seen_instock[watch]

Unconfigured == PUSHOVER_TOKEN = "" \/ PUSHOVER_USER = ""

\* C10: with a credential unset no iphone_push call makes a request, and
\* last_seen_instock is what it is in the run with both credentials set
\* that sees the same pages.
C10_UnconfiguredIsNoOp ==
  /\ Unconfigured => lastPoll.posts = 0 /\ lastPoll.push \in { "none", "skipped" }
  /\ last_seen_instock = twin_seen

\* C10 witness: without the token, the gate called iphone_push, which
\* skipped, and the product is stored as in stock in both runs.
C10_Witness ==
  /\ PUSHOVER_TOKEN = "" /\ PUSHOVER_USER = "usr"
  /\ lastPoll.result = "done" /\ lastPoll.notified /\ lastPoll.push = "skipped"
  /\ last_seen_instock[lastPoll.url] /\ twin_seen[lastPoll.url]

\* C11: when a process starts every tracked product's state is false, and
\* in a process that was started again the first completed poll of a
\* product with a true verdict calls iphone_push for it, once, whatever the
\* product's state was when the process before ended.
C11_RestartResetsState ==
  /\ (pc = "loop" /\ loop_count = 0) => \A url \in Products : ~last_seen_instock[url]
  /\ (Watched /\ restarts >= 1) =>
       \A k \in 1..Len(verdicts) :
         (verdicts[k] /\ \A j \in 1..(k - 1) : ~verdicts[j]) =>
           /\ dispatches[k] # "none"
           /\ \A j \in 1..(k - 1) : dispatches[j] = "none"
           /\ Notifications(SubSeq(dispatches, 1, k)) = 1

\* C11 witness: the watched product was stored as in stock when the process
\* ended; the first poll of the process started after it is true and pushes.
C11_Witness ==
  /\ Watched
  /\ restarts = 1 /\ prior_seen
  /\ verdicts = << TRUE >> /\ dispatches = << "sent" >>
  /\ lastPoll.url = watch /\ lastPoll.notified /\ lastPoll.posts = 1
  /\ ~lastPoll.was

\* the step that ends an attempt on the product at index i, however it ends
EndsAttempt == NavigationFailed \/ CheckFailed \/ CompletesPoll

\* the products attempted so far in the cycle are the first ones of the
\* list, each once and in list order, and all of them once the for loop is left
AttemptedInOrder ==
  /\ pc \in { "goto", "check" } => attempted = SubSeq(PRODUCT_URLS, 1, i - 1)
  /\ pc \in { "recycle", "sleep" } => attempted = PRODUCT_URLS

\* C12: in every cycle the products are attempted once each, in list order:
\* an attempt, whether it fails at the navigation, fails at the check or
\* completes, is followed by the next product of the list, and the last
\* one by the end of the cycle, whose only steps before the next cycle are
\* the recycle and the sleep; no attempt ends the process.
C12_EveryProductEveryCycle ==
  [][ /\ AttemptedInOrder'
      /\ EndsAttempt =>
           /\ attempted' = Append(attempted, CurrentUrl)
           /\ lastPoll'.url = CurrentUrl
           /\ IF i < Len(PRODUCT_URLS)
                THEN pc' = "goto" /\ i' = i + 1
                ELSE pc' \in { "recycle", "sleep" }
      /\ (pc = "recycle" /\ pc' # "exited") => pc' = "sleep"
      /\ pc' = "loop" => (pc \in { "sleep", "exited" } /\ (pc = "sleep" => attempted = PRODUCT_URLS))
    ]_vars

\* C12 witness: the attempt on the first product, the watched one, failed
\* and left no verdict; the last product was attempted all the same, its
\* navigation failed, and the cycle is at its sleep with every product
\* attempted once.
C12_Witness ==
  /\ pc = "sleep"
  /\ loop_count = 1 /\ restarts = 0
  /\ watch = PRODUCT_URLS[1] /\ verdicts = << >>
  /\ attempted = PRODUCT_URLS
  /\ lastPoll.url = PRODUCT_URLS[Len(PRODUCT_URLS)]
  /\ lastPoll.result = "nav_failed"

\* C13 as claimed: in every state at most one rendering session is alive:
\* at most one engine, one context and one page are open, after the
\* recycle too.
C13_OneSessionAlive ==
  /\ Cardinality(open_browsers) <= 1
  /\ Cardinality(open_contexts) <= 1
  /\ Cardinality(open_pages) <= 1

\* C14 as claimed: no engine, context or page is open besides the ones
\* main() holds, so none is left open when it is replaced, and none is
\* open once the process has ended.
C14_GuaranteedTeardown ==
  /\ pc \in RunningPcs =>
       /\ open_browsers \subseteq { browser }
       /\ open_contexts \subseteq { context }
       /\ open_pages \subseteq { page }
  /\ pc = "exited" =>
       open_browsers = {} /\ open_contexts = {} /\ open_pages = {}

\* C15: iphone_push is called for a product only by a completed poll of
\* that product whose check found a visible and enabled buy button (the
\* test push at boot aside); a candidate phrase in the HTML of a page
\* without such a button pushes nothing.
C15_PushOnlyOnButton ==
  /\ lastPoll.notified =>
       /\ lastPoll.result = "done"
       /\ lastPoll.button /\ lastPoll.in_stock
       /\ lastPoll.push_url = lastPoll.url
  /\ lastPoll.push # "none" =>
       \/ lastPoll.result = "startup"
       \/ lastPoll.result = "done" /\ lastPoll.button
  /\ (lastPoll.result = "done" /\ lastPoll.buy_text /\ ~lastPoll.button) =>
       /\ ~lastPoll.in_stock /\ ~lastPoll.notified
       /\ lastPoll.push = "none" /\ lastPoll.posts = 0
  /\ Watched =>
       \A k \in 1..Len(dispatches) : dispatches[k] # "none" => verdicts[k]

\* C15 witness: with both credentials set, a product not stored as in
\* stock was polled, its page holds a buy phrase as text and no enabled
\* button, and nothing was pushed.
C15_Witness ==
  /\ PUSHOVER_TOKEN = "tok" /\ PUSHOVER_USER = "usr"
  /\ lastPoll.result = "done"
  /\ lastPoll.buy_text /\ ~lastPoll.button
  /\ ~lastPoll.was
  /\ ~lastPoll.notified /\ lastPoll.push = "none"
  /\ ~last_seen_instock[lastPoll.url]

\* C16 as claimed: the polling loop is left only by an external interrupt,
\* with exit code 0: no failure of a fetch, a check, a push or the recycle
\* ends the process.
C16_OnlyInterruptEnds ==
  pc = "exited" => (exit.reason = "interrupt" /\ exit.code = 0)

\* the verdict of the watched product's latest completed poll, false
\* before the first
LatestVerdict == IF verdicts = << >> THEN FALSE ELSE verdicts[Len(verdicts)]

\* C17: a product's stored state is the verdict of its latest completed
\* poll, false before the first; only a completed poll writes the mapping,
\* it writes the verdict as it is, for the polled product, once, and a
\* product has at most one completed poll per cycle.
C17_StateIsLatestVerdict ==
  [][ /\ Watched' =>
           /\ last_seen_instock'[watch'] = LatestVerdict'
           /\ Len(verdicts') <= loop_count'
      /\ CompletesPoll =>
           /\ last_seen_instock' = [ last_seen_instock EXCEPT ![CurrentUrl] = lastPoll'.in_stock ]
           /\ \A k \in 1..Len(attempted) : attempted[k] # CurrentUrl
           /\ CurrentUrl = watch => verdicts' = Append(verdicts, lastPoll'.in_stock)
      /\ last_seen_instock' # last_seen_instock => (CompletesPoll \/ pc' = "exited")
    ]_vars

\* C17 witness: the watched product was polled true, then false: its
\* stored state, true before the second poll, is false after it.
C17_Witness ==
  /\ Watched
  /\ verdicts = << TRUE, FALSE >>
  /\ lastPoll.url = watch /\ lastPoll.result = "done"
  /\ lastPoll.was /\ ~lastPoll.in_stock
  /\ ~last_seen_instock[watch]

\* C18: an attempt on a product, failed or completed, leaves the stored
\* state of every other product as it was, and a push it makes names the
\* attempted product; the history of a product changes only in its own polls.
C18_PollTouchesOwnProduct ==
  [][ EndsAttempt =>
        /\ \A u \in Products \ { CurrentUrl } : last_seen_instock'[u] = last_seen_instock[u]
        /\ lastPoll'.url = CurrentUrl
        /\ lastPoll'.push_url \in { "none", CurrentUrl }
        /\ lastPoll'.push # "none" => lastPoll'.push_url = CurrentUrl
        /\ (Watched /\ CurrentUrl # watch) =>
             verdicts' = verdicts /\ dispatches' = dispatches
    ]_vars

\* C18 witness: in the first cycle the first product was polled true and
\* pushed, then the second was polled false: the first is still stored
\* as in stock, the second is not, and the latest poll pushed nothing.
C18_Witness ==
  /\ loop_count = 1
  /\ watch = PRODUCT_URLS[1]
  /\ verdicts = << TRUE >> /\ dispatches[1] # "none"
  /\ lastPoll.url = PRODUCT_URLS[2] /\ lastPoll.result = "done"
  /\ ~lastPoll.in_stock /\ lastPoll.push_url = "none"
  /\ last_seen_instock[PRODUCT_URLS[1]] /\ ~last_seen_instock[PRODUCT_URLS[2]]

\* the step that replaces the session main() holds, in a running process
ReplacesSession == pc \in RunningPcs /\ pc' \in RunningPcs /\ browser' # browser

\* C20: the session is replaced only by the recycle, after the last product
\* of a cycle and before its sleep, in the cycles whose count is a multiple
\* of LOOP_RESTART and in each of them; the recycle leaves last_seen_instock
\* and the cycle count as they are, so a product stored as in stock before
\* it and polled true after it is not pushed again.
C20_RecycleAtCycleEnd ==
  [][ /\ ReplacesSession =>
           /\ pc = "recycle" /\ pc' = "sleep"
           /\ loop_count % LOOP_RESTART = 0 /\ loop_count' = loop_count
           /\ attempted = PRODUCT_URLS
           /\ last_seen_instock' = last_seen_instock
           /\ lastPoll' = lastPoll
      /\ (EndsAttempt /\ i = Len(PRODUCT_URLS)) =>
           pc' = (IF loop_count % LOOP_RESTART = 0 THEN "recycle" ELSE "sleep")
      /\ (pc = "recycle" /\ pc' # "exited") => ReplacesSession
      /\ pc' \in { "sleep", "loop" } => browser' = 1 + (loop_count' \div LOOP_RESTART)
      /\ (CompletesPoll /\ last_seen_instock[CurrentUrl]) => ~lastPoll'.notified
    ]_vars

\* C20 witness: in the cycle after the recycle, with the second session, a
\* product stored as in stock since before the recycle was polled true and
\* nothing was pushed.
C20_Witness ==
  /\ loop_count = LOOP_RESTART + 1
  /\ browser = 2 /\ open_contexts = { 2 } /\ open_pages = { 2 }
  /\ lastPoll.result = "done"
  /\ lastPoll.in_stock /\ lastPoll.was
  /\ ~lastPoll.notified /\ lastPoll.push = "none"
  /\ last_seen_instock[lastPoll.url]

\* C19: the verdict of is_in_stock is the result of find_enabled_buy_button
\* on every observation: neither the phrases of the HTML nor a
\* page.content() that raises changes it.
C19_VerdictIsButtonCheck ==
  Classified =>
    /\ probe.verdict = find_enabled_buy_button(probe.obs)
    /\ probe.verdict = EnabledButton(probe.obs)

\* C19 witness: no enabled button, waitlist phrasing in a page whose
\* content() raises, classified false like the button check.
C19_Witness ==
  /\ Classified
  /\ ContainsPhrase(probe.obs, NOTIFY_ME_TEXTS)
  /\ probe.obs.content_raises
  /\ \E k \in ButtonQueries : probe.obs.buttons[k] = "hidden"
  /\ ~find_enabled_buy_button(probe.obs)
  /\ ~probe.verdict

====
